---- MODULE Spec2Model ----
(***************************************************************************)
(* Model of environment_dashboard.py: the simulated-series generator, the  *)
(* date/region filter, the metric cards and the threshold insights, run as *)
(* the script runs them (generate -> sidebar -> filter -> cards ->         *)
(* insights), once per rerun of the page.                                  *)
(*                                                                         *)
(* Numbers the script holds as floats are held here as exact fixed-point   *)
(* integers in units of 1/Scale; a mean is the exact fraction sum/n.       *)
(* A Timestamp is the proleptic Gregorian ordinal of its day (all of the   *)
(* script's timestamps are at midnight).                                   *)
(***************************************************************************)
EXTENDS Integers, Sequences, FiniteSets

VARIABLES
    rng,             \* state of the process-wide np.random generator
    pc,              \* the statement the script runs next
    err,             \* the exception that ended the run, "" if none
    year_sel,        \* line 73
    days,            \* the day count generate_dynamic_data was called with
    df,              \* line 76
    date_range_sel,  \* line 82: <<start_date, end_date>>
    region_sel,      \* line 90
    df_filtered,     \* lines 103-107
    cards,           \* lines 113-115: the three formatted means
    insights         \* lines 149-164

vars == <<rng, pc, err, year_sel, days, df, date_range_sel, region_sel,
          df_filtered, cards, insights>>

----------------------------------------------------------------------------
(* Bounds of the model *)

\* the largest day count handed to generate_dynamic_data
MaxDays == 2

\* the year datetime.today() falls in
CurrentYear == 2024

----------------------------------------------------------------------------
(* Program constants *)

REGIONS == <<"North", "South", "East", "West">>

METRICS == <<"Air_Quality_PM25", "Soil_Moisture", "Pollution_Index">>

AirMu == 50
AirSigma == 10
AirDiv == 5
AirLo == 10
AirHi == 150

SoilMu == 30
SoilSigma == 5
SoilDiv == 3
SoilLo == 10
SoilHi == 80

PollMu == 40
PollSigma == 8
PollDiv == 4
PollLo == 5
PollHi == 120

AirThreshold == 80
SoilThreshold == 25
PollThreshold == 70

MsgAirHigh == "Air pollution is high in the selected period."
MsgAirGood == "Air quality is moderate/good."
MsgSoilLow == "Soil moisture is low - irrigation recommended."
MsgSoilGood == "Soil moisture is stable and healthy."
MsgPollHigh == "Pollution levels are high - environmental risk detected."
MsgPollSafe == "Pollution levels are within a safe range."

----------------------------------------------------------------------------
(* Float arithmetic, exact *)

\* one unit of a float is 1/Scale; Scale is a multiple of every divisor used
Scale == AirDiv * SoilDiv * PollDiv

Fix(n) == n * Scale

\* x / d for an integer x, as a fixed-point value (exact: d divides Scale)
TrueDiv(x, d) == x * (Scale \div d)

\* Clip with the upper bound forgotten
ClipLowerOnly(x, lo, hi) == IF x < Fix(lo) THEN Fix(lo) ELSE x

\* np.clip on one value
Clip(x, lo, hi) == IF x < Fix(lo) THEN Fix(lo) ELSE IF x > Fix(hi) THEN Fix(hi) ELSE x

RECURSIVE SumSeq(_)
SumSeq(s) == IF s = <<>> THEN 0 ELSE s[1] + SumSeq(Tail(s))

\* ndarray.cumsum
Cumsum(s) == [t \in 1..Len(s) |-> SumSeq(SubSeq(s, 1, t))]

\* Mean with an empty series averaged to zero
MeanEmptyIsZero(s) ==
    IF Len(s) = 0 THEN [nan |-> FALSE, sum |-> 0, n |-> 1]
    ELSE [nan |-> FALSE, sum |-> SumSeq(s), n |-> Len(s)]

\* Series.mean: NaN for a series without values, else the fraction sum/n
Mean(s) ==
    IF Len(s) = 0 THEN [nan |-> TRUE, sum |-> 0, n |-> 0]
    ELSE [nan |-> FALSE, sum |-> SumSeq(s), n |-> Len(s)]

\* mean > c and mean < c for floats: every comparison with NaN is False
Gt(m, c) == ~m.nan /\ m.sum > Fix(c) * m.n

Lt(m, c) == ~m.nan /\ m.sum < Fix(c) * m.n

\* format(m, ".2f"): "nan" for NaN, else the value rounded to hundredths
Format2f(m) ==
    IF m.nan THEN [text |-> "nan", cents |-> 0]
    ELSE [text |-> "num",
          cents |-> (2 * 100 * m.sum + Scale * m.n) \div (2 * Scale * m.n)]

----------------------------------------------------------------------------
(* Calendar *)

IsLeap(y) == (y % 4 = 0) /\ ((y % 100 # 0) \/ (y % 400 = 0))

DaysBeforeYear(y) ==
    (y - 1) * 365 + ((y - 1) \div 4) - ((y - 1) \div 100) + ((y - 1) \div 400)

DaysBeforeMonth(y, m) ==
    <<0, 31, 59, 90, 120, 151, 181, 212, 243, 273, 304, 334>>[m]
    + (IF m > 2 /\ IsLeap(y) THEN 1 ELSE 0)

\* datetime(year, month, day)
datetime(y, m, d) == [year |-> y, month |-> m, day |-> d]

\* pd.to_datetime / Timestamp(...) of a calendar date: midnight of that day
to_datetime(date) ==
    DaysBeforeYear(date.year) + DaysBeforeMonth(date.year, date.month) + date.day

\* date_range with the first day skipped
date_rangeFromSecondDay(start, periods) ==
    [t \in 1..periods |-> to_datetime(start) + t]

\* pd.date_range(start=start, periods=periods, freq='D')
date_range(start, periods) ==
    [t \in 1..periods |-> to_datetime(start) + (t - 1)]

----------------------------------------------------------------------------
(* The shared random source *)

\* The generator is a deterministic stream read from a hidden state. The
\* stream here is a cycle of standard-normal deviates z (a draw of
\* normal(mu, sigma) is mu + sigma * z), some ordinary, some far in either
\* tail so that both clamp bounds and all three thresholds are crossed and
\* met exactly; the state is the position in the cycle.
Tape == <<35, 9, 30, 40, 0, 9, -6, 30, -5, -8, 80, 1, -1,
          70, -3, 5, 12, -20, 25>>

RngStates == 0..(Len(Tape) - 1)

Advance(r, k) == (r + k) % Len(Tape)

\* np.random.normal(mu, sigma, size) drawn from state r
Normal(mu, sigma, size, r) ==
    [t \in 1..size |-> mu + sigma * Tape[Advance(r, t - 1) + 1]]

----------------------------------------------------------------------------
(* generate_dynamic_data *)

\* one metric's series: clip(normal(...).cumsum() / div, lo, hi)
Series(mu, sigma, div, lo, hi, size, r) ==
    LET walk == Cumsum(Normal(mu, sigma, size, r))
    IN  [t \in 1..size |-> Clip(TrueDiv(walk[t], div), lo, hi)]

\* the rows one pass of the region loop appends, drawing from state r
RegionRows(region, dates, n, r) ==
    LET air_quality == Series(AirMu, AirSigma, AirDiv, AirLo, AirHi, n, r)
        soil_moisture ==
            Series(SoilMu, SoilSigma, SoilDiv, SoilLo, SoilHi, n, Advance(r, n))
        pollution_index ==
            Series(PollMu, PollSigma, PollDiv, PollLo, PollHi, n, Advance(r, 2 * n))
    IN  [t \in 1..Len(dates) |->
            [Date |-> dates[t],
             Region |-> region,
             Air_Quality_PM25 |-> air_quality[t],
             Soil_Moisture |-> soil_moisture[t],
             Pollution_Index |-> pollution_index[t]]]

\* the region loop stopping one region short
RECURSIVE RegionLoopDropsLast(_, _, _, _)
RegionLoopDropsLast(i, dates, n, r) ==
    IF i >= Len(REGIONS) THEN <<>>
    ELSE RegionRows(REGIONS[i], dates, n, r)
         \o RegionLoopDropsLast(i + 1, dates, n, Advance(r, 3 * n))

RECURSIVE RegionLoop(_, _, _, _)
RegionLoop(i, dates, n, r) ==
    IF i > Len(REGIONS) THEN <<>>
    ELSE RegionRows(REGIONS[i], dates, n, r)
         \o RegionLoop(i + 1, dates, n, Advance(r, 3 * n))

\* generate_dynamic_data refusing a day count of zero as well
generate_dynamic_dataRefusesZero(year, n, r) ==
    IF n <= 0 THEN [err |-> "ValueError", df |-> <<>>, rng |-> r]
    ELSE [err |-> "",
          df |-> RegionLoop(1, date_range(datetime(year, 1, 1), n), n, r),
          rng |-> Advance(r, 3 * n * Len(REGIONS))]

\* the call generate_dynamic_data(year, n) made with the random source in
\* state r: the table, the error raised if any, and the source's next state.
\* A negative n is refused by the sample draw (and by date_range in the
\* pandas releases that validate periods): ValueError either way.
generate_dynamic_data(year, n, r) ==
    IF n < 0 THEN [err |-> "ValueError", df |-> <<>>, rng |-> r]
    ELSE LET start_date == datetime(year, 1, 1)
             dates == date_range(start_date, n)
         IN  [err |-> "",
              df |-> RegionLoop(1, dates, n, r),
              rng |-> Advance(r, 3 * n * Len(REGIONS))]

----------------------------------------------------------------------------
(* Filter, cards, insights *)

Column(table, name) == [i \in 1..Len(table) |-> table[i][name]]

\* the filter with the end date excluded
ApplyFilterEndExclusive(table, start_date, end_date, region) ==
    LET InRange(row) == row.Date >= to_datetime(start_date)
                        /\ row.Date < to_datetime(end_date)
        ranged == SelectSeq(table, InRange)
        IsRegion(row) == row.Region = region
    IN  IF region # "All" THEN SelectSeq(ranged, IsRegion) ELSE ranged

\* the filter with "All" compared like any region name
ApplyFilterAllIsARegion(table, start_date, end_date, region) ==
    LET InRange(row) == row.Date >= to_datetime(start_date)
                        /\ row.Date <= to_datetime(end_date)
        IsRegion(row) == row.Region = region
    IN  SelectSeq(SelectSeq(table, InRange), IsRegion)

\* df[(df.Date >= start) & (df.Date <= end)], then the region mask
ApplyFilter(table, start_date, end_date, region) ==
    LET InRange(row) == row.Date >= to_datetime(start_date)
                        /\ row.Date <= to_datetime(end_date)
        ranged == SelectSeq(table, InRange)
        IsRegion(row) == row.Region = region
    IN  IF region # "All" THEN SelectSeq(ranged, IsRegion) ELSE ranged

MetricCards(table) ==
    <<Format2f(Mean(Column(table, "Air_Quality_PM25"))),
      Format2f(Mean(Column(table, "Soil_Moisture"))),
      Format2f(Mean(Column(table, "Pollution_Index")))>>

AirInsight(table) ==
    IF Gt(Mean(Column(table, "Air_Quality_PM25")), AirThreshold)
    THEN MsgAirHigh ELSE MsgAirGood

\* the soil insight with the threshold itself counted as low
SoilInsightLowAtThreshold(table) ==
    LET m == Mean(Column(table, "Soil_Moisture"))
    IN  IF ~m.nan /\ m.sum <= Fix(SoilThreshold) * m.n
        THEN MsgSoilLow ELSE MsgSoilGood

SoilInsight(table) ==
    IF Lt(Mean(Column(table, "Soil_Moisture")), SoilThreshold)
    THEN MsgSoilLow ELSE MsgSoilGood

PollInsight(table) ==
    IF Gt(Mean(Column(table, "Pollution_Index")), PollThreshold)
    THEN MsgPollHigh ELSE MsgPollSafe

\* the three tests chained with elif: the first alert ends the list
BuildInsightsFirstAlertOnly(table) ==
    IF AirInsight(table) = MsgAirHigh THEN <<MsgAirHigh>>
    ELSE IF SoilInsight(table) = MsgSoilLow THEN <<MsgAirGood, MsgSoilLow>>
    ELSE <<AirInsight(table)>> \o <<SoilInsight(table)>> \o <<PollInsight(table)>>

BuildInsights(table) ==
    <<AirInsight(table)>> \o <<SoilInsight(table)>> \o <<PollInsight(table)>>

----------------------------------------------------------------------------
(* Inputs *)

year_options ==
    {CurrentYear - 2, CurrentYear - 1, CurrentYear, CurrentYear + 1, CurrentYear + 2}

\* day counts handed to the generator (the page itself uses the default)
DayCounts == (-1)..MaxDays

\* dates a range selection may name: the generated days and one day on
\* either side of them
DateChoices(year) ==
    {datetime(year - 1, 12, 31)} \cup {datetime(year, 1, d) : d \in 1..(MaxDays + 1)}

RegionsOf(table) == {table[i].Region : i \in 1..Len(table)}

NoCards == <<>>

----------------------------------------------------------------------------
(* The script *)

Init ==
    /\ rng \in RngStates
    /\ pc = "generate"
    /\ err = ""
    /\ year_sel = CurrentYear - 2
    /\ days = 0
    /\ df = <<>>
    /\ date_range_sel = <<datetime(CurrentYear - 2, 1, 1), datetime(CurrentYear - 2, 1, 1)>>
    /\ region_sel = "All"
    /\ df_filtered = <<>>
    /\ cards = NoCards
    /\ insights = <<>>

\* lines 73-76: the year is chosen and the table generated
Generate ==
    /\ pc = "generate"
    /\ \E y \in year_options, n \in DayCounts :
          LET out == generate_dynamic_data(y, n, rng)
          IN  /\ year_sel' = y
              /\ days' = n
              /\ df' = out.df
              /\ rng' = out.rng
              /\ err' = out.err
              /\ pc' = IF out.err = "" THEN "sidebar" ELSE "error"
    /\ UNCHANGED <<date_range_sel, region_sel, df_filtered, cards, insights>>

\* lines 79-96: the date range and the region are chosen; a table without
\* rows has no "Date" column to take the minimum of
SidebarControls ==
    /\ pc = "sidebar"
    /\ IF df = <<>>
       THEN /\ err' = "KeyError"
            /\ pc' = "error"
            /\ UNCHANGED <<date_range_sel, region_sel>>
       ELSE /\ \E s \in DateChoices(year_sel), e \in DateChoices(year_sel) :
                  date_range_sel' = <<s, e>>
            /\ region_sel' \in {"All"} \cup RegionsOf(df)
            /\ pc' = "filter"
            /\ UNCHANGED err
    /\ UNCHANGED <<rng, year_sel, days, df, df_filtered, cards, insights>>

\* lines 101-107
ApplyFilters ==
    /\ pc = "filter"
    /\ df_filtered' = ApplyFilter(df, date_range_sel[1], date_range_sel[2], region_sel)
    /\ pc' = "cards"
    /\ UNCHANGED <<rng, err, year_sel, days, df, date_range_sel, region_sel, cards, insights>>

\* lines 112-115
ShowMetricCards ==
    /\ pc = "cards"
    /\ cards' = MetricCards(df_filtered)
    /\ pc' = "insights"
    /\ UNCHANGED <<rng, err, year_sel, days, df, date_range_sel, region_sel,
                   df_filtered, insights>>

\* lines 149-164
ShowInsights ==
    /\ pc = "insights"
    /\ insights' = BuildInsights(df_filtered)
    /\ pc' = "done"
    /\ UNCHANGED <<rng, err, year_sel, days, df, date_range_sel, region_sel,
                   df_filtered, cards>>

\* a widget change reruns the script from the top: every script variable is
\* rebound, the process-wide random source keeps its state
Rerun ==
    /\ pc \in {"done", "error"}
    /\ pc' = "generate"
    /\ err' = ""
    /\ year_sel' = CurrentYear - 2
    /\ days' = 0
    /\ df' = <<>>
    /\ date_range_sel' = <<datetime(CurrentYear - 2, 1, 1), datetime(CurrentYear - 2, 1, 1)>>
    /\ region_sel' = "All"
    /\ df_filtered' = <<>>
    /\ cards' = NoCards
    /\ insights' = <<>>
    /\ UNCHANGED rng

Next ==
    \/ Generate
    \/ SidebarControls
    \/ ApplyFilters
    \/ ShowMetricCards
    \/ ShowInsights
    \/ Rerun

Spec == Init /\ [][Next]_vars

----------------------------------------------------------------------------
(* Vocabulary of the properties *)

RegionNames == {"North", "South", "East", "West"}

Rows(table) == {table[i] : i \in 1..Len(table)}

\* the call to generate_dynamic_data has returned a table
Generated == pc # "generate" /\ err # "ValueError"

\* the filter step has run
Filtered == pc \in {"cards", "insights", "done"}

\* the insight step has run
Insighted == pc = "done"

\* a <= b on calendar dates
CalLe(a, b) ==
    \/ a.year < b.year
    \/ a.year = b.year /\ a.month < b.month
    \/ a.year = b.year /\ a.month = b.month /\ a.day <= b.day

\* the calendar days of the generated table: January 1..days of the year
GeneratedDates == {datetime(year_sel, 1, k) : k \in 1..days}

RowsOfRegion(table, r) ==
    LET IsR(row) == row.Region = r IN SelectSeq(table, IsR)

\* the row qualifies for the current selection: its date is a calendar day c
\* with start <= c <= end, and its region is the selected one unless "All"
Qualifies(row) ==
    /\ \E c \in GeneratedDates :
          /\ to_datetime(c) = row.Date
          /\ CalLe(date_range_sel[1], c)
          /\ CalLe(c, date_range_sel[2])
    /\ (region_sel = "All" \/ row.Region = region_sel)

----------------------------------------------------------------------------
(* Properties *)

\* C1: for every year and every day count N >= 0, the generated table has
\* exactly 4 * N rows, N for each of North, South, East and West.
C1_RowCount ==
    Generated =>
        /\ Len(df) = 4 * days
        /\ \A r \in RegionNames :
              Cardinality({i \in 1..Len(df) : df[i].Region = r}) = days

C1_Witness == Generated /\ days = 2 /\ Len(df) = 8

\* C2: every row of the generated table and of the filtered subtable has
\* 10 <= PM2.5 <= 150, 10 <= soil moisture <= 80, 5 <= pollution index <= 120.
C2_ClampBounds ==
    \A row \in Rows(df) \cup Rows(df_filtered) :
        /\ Fix(10) <= row.Air_Quality_PM25 /\ row.Air_Quality_PM25 <= Fix(150)
        /\ Fix(10) <= row.Soil_Moisture /\ row.Soil_Moisture <= Fix(80)
        /\ Fix(5) <= row.Pollution_Index /\ row.Pollution_Index <= Fix(120)

\* a row whose PM2.5 was raised to the lower bound and whose soil moisture
\* was cut to the upper bound, kept by the filter
C2_Witness ==
    \E row \in Rows(df_filtered) :
        row.Air_Quality_PM25 = Fix(10) /\ row.Soil_Moisture = Fix(80)

\* C3: the dates of each region's rows are January 1, 2, ..., N of the year,
\* in that order, and no (date, region) pair occurs twice.
C3_ContiguousDates ==
    Generated =>
        /\ \A r \in RegionNames :
              LET rows == RowsOfRegion(df, r)
              IN  /\ Len(rows) = days
                  /\ \A k \in 1..Len(rows) :
                        rows[k].Date = to_datetime(datetime(year_sel, 1, k))
        /\ \A i, j \in 1..Len(df) :
              (df[i].Date = df[j].Date /\ df[i].Region = df[j].Region) => i = j

C3_Witness ==
    /\ Generated
    /\ days = 2
    /\ year_sel = 2024
    /\ RowsOfRegion(df, "East")[2].Date = to_datetime(datetime(2024, 1, 1)) + 1

\* C4: the filtered subtable holds exactly the rows of the table whose date
\* lies in [start_date, end_date] and whose region is the selected one (any
\* region for "All"), each once; Jan 1..Jan 1 of 2024 with "North" gives one
\* row, and a start date after the end date gives none.
C4_FilterExact ==
    Filtered =>
        /\ \A i \in 1..Len(df) : (df[i] \in Rows(df_filtered)) <=> Qualifies(df[i])
        /\ Rows(df_filtered) \subseteq Rows(df)
        /\ Cardinality(Rows(df_filtered)) = Len(df_filtered)
        /\ (/\ date_range_sel = <<datetime(2024, 1, 1), datetime(2024, 1, 1)>>
            /\ region_sel = "North") => Len(df_filtered) = 1
        /\ ~CalLe(date_range_sel[1], date_range_sel[2]) => df_filtered = <<>>

C4_Witness ==
    /\ Filtered
    /\ date_range_sel = <<datetime(2024, 1, 1), datetime(2024, 1, 1)>>
    /\ region_sel = "North"
    /\ days = 2
    /\ Len(df_filtered) = 1

\* C5: for the table and date range at hand, the "All" result contains each
\* single region's result and equals the union of the four of them.
C5_AllIsUnion ==
    Filtered =>
        LET Result(region) ==
                Rows(ApplyFilter(df, date_range_sel[1], date_range_sel[2], region))
        IN  /\ \A r \in RegionNames : Result(r) \subseteq Result("All")
            /\ Result("All") = UNION {Result(r) : r \in RegionNames}
            /\ Rows(df_filtered) = Result(region_sel)

C5_Witness ==
    /\ Filtered
    /\ region_sel = "All"
    /\ Len(df_filtered) = 8
    /\ Len(ApplyFilter(df, date_range_sel[1], date_range_sel[2], "South")) = 2

\* C6: for a non-empty subtable each metric's message is the one its mean
\* selects: high air pollution iff mean PM2.5 > 80, low soil moisture iff
\* mean soil moisture < 25, high pollution iff mean pollution index > 70,
\* and the other message of the pair otherwise (so at 80, 25 and 70 too).
C6_InsightThresholds ==
    (Insighted /\ df_filtered # <<>>) =>
        LET n == Len(df_filtered)
            air == SumSeq(Column(df_filtered, "Air_Quality_PM25"))
            soil == SumSeq(Column(df_filtered, "Soil_Moisture"))
            poll == SumSeq(Column(df_filtered, "Pollution_Index"))
        IN  /\ (insights[1] = MsgAirHigh) <=> (air > Fix(80) * n)
            /\ (insights[1] = MsgAirGood) <=> (air <= Fix(80) * n)
            /\ (insights[2] = MsgSoilLow) <=> (soil < Fix(25) * n)
            /\ (insights[2] = MsgSoilGood) <=> (soil >= Fix(25) * n)
            /\ (insights[3] = MsgPollHigh) <=> (poll > Fix(70) * n)
            /\ (insights[3] = MsgPollSafe) <=> (poll <= Fix(70) * n)

\* mean PM2.5 = 95 with the high message, mean soil moisture = 25 and mean
\* pollution index = 70 with the second message of their pairs
C6_Witness ==
    /\ Insighted
    /\ Len(df_filtered) = 2
    /\ SumSeq(Column(df_filtered, "Air_Quality_PM25")) = Fix(95) * 2
    /\ SumSeq(Column(df_filtered, "Soil_Moisture")) = Fix(25) * 2
    /\ SumSeq(Column(df_filtered, "Pollution_Index")) = Fix(70) * 2
    /\ insights = <<MsgAirHigh, MsgSoilGood, MsgPollSafe>>

\* C7: the insights list has exactly three entries, one about air quality,
\* then one about soil moisture, then one about pollution, also for an
\* empty subtable.
C7_ThreeInsights ==
    Insighted =>
        /\ Len(insights) = 3
        /\ insights[1] \in {MsgAirHigh, MsgAirGood}
        /\ insights[2] \in {MsgSoilLow, MsgSoilGood}
        /\ insights[3] \in {MsgPollHigh, MsgPollSafe}

C7_Witness == Insighted /\ df_filtered = <<>> /\ Len(insights) = 3

\* C8: for an empty subtable the insight step asserts neither message of
\* any threshold pair.
C8_EmptyIsInconclusive ==
    (Insighted /\ df_filtered = <<>>) =>
        \A k \in 1..Len(insights) :
            insights[k] \notin {MsgAirHigh, MsgAirGood, MsgSoilLow, MsgSoilGood,
                                MsgPollHigh, MsgPollSafe}

\* C9: for every day count N <= 0 the generator returns a table without
\* rows and raises no error.
C9_NonPositiveDaysEmpty ==
    (pc # "generate" /\ days <= 0) => (err # "ValueError" /\ df = <<>>)

\* C9 as amended: for a day count of 0 the generator returns a table
\* without rows and raises no error; for a negative day count it raises
\* ValueError and returns no table.
C9_ZeroEmptyNegativeRaises ==
    (pc # "generate") =>
        /\ (days = 0) => (err # "ValueError" /\ df = <<>>)
        /\ (days < 0) => (err = "ValueError" /\ pc = "error" /\ df = <<>>)

C9_Witness == pc = "sidebar" /\ days = 0 /\ err = "" /\ df = <<>>

\* C10: for an empty subtable each of the three means is NaN and the three
\* cards are computed and formatted without an error.
C10_EmptyMeansNaN ==
    (pc \in {"insights", "done"} /\ df_filtered = <<>>) =>
        /\ err = ""
        /\ Len(cards) = 3
        /\ \A k \in 1..3 : cards[k].text = "nan"
        /\ \A m \in {"Air_Quality_PM25", "Soil_Moisture", "Pollution_Index"} :
              Mean(Column(df_filtered, m)).nan

C10_Witness ==
    /\ pc = "insights"
    /\ df_filtered = <<>>
    /\ df # <<>>
    /\ cards = <<Format2f(Mean(<<>>)), Format2f(Mean(<<>>)), Format2f(Mean(<<>>))>>

====
